---------------------------- MODULE Spec2Model ----------------------------
(***************************************************************************)
(* A model of downloader.py: the quality ranker                            *)
(* (VideoDownloader.get_available_qualities), the menu rendering of        *)
(* display_qualities, the URL classifier (is_playlist), the request        *)
(* builder (download_video) and the menu loop of main().                   *)
(*                                                                         *)
(* Python values are tagged records, so that a missing dictionary key,     *)
(* None, a number and a string stay distinct, as they are for dict.get,    *)
(* truthiness, isinstance and the comparison operators.                    *)
(***************************************************************************)
EXTENDS Integers, Sequences, FiniteSets, TLC

VARIABLES
    \* the ranker applied to one catalog
    rk_pc, rk_info, rk_type, rk_result, rk_lines,
    \* the URL classifier applied to one URL
    uc_pc, uc_url, uc_verdict,
    \* main(): position in the loop and its local variables
    pc, choice, url, info, sample_info, qualities, quality_choice, format_id,
    ydl_opts, success,
    \* how the external engine answered the last step's call, what the step printed
    engine, console

rk_vars == <<rk_pc, rk_info, rk_type, rk_result, rk_lines>>
uc_vars == <<uc_pc, uc_url, uc_verdict>>
main_vars == <<pc, choice, url, info, sample_info, qualities, quality_choice, format_id,
               ydl_opts, success, engine, console>>
vars == <<rk_vars, uc_vars, main_vars>>

----------------------------------------------------------------------------
(* Python values *)

Missing == [t |-> "missing"]
None == [t |-> "None"]
Num(n) == [t |-> "num", n |-> n]
Str(s) == [t |-> "str", s |-> s]
\* a dotted string such as "avc1.64001F", kept as its '.'-separated parts
Dotted(parts) == [t |-> "str", parts |-> parts]

\* dict.get(key, default); dict.get(key) is Get(v, None)
Get(v, default) == IF v = Missing THEN default ELSE v

\* bool(v) for the values above
Truthy(v) ==
    CASE v.t = "num" -> v.n # 0
      [] v.t = "str" -> v # Str("") /\ v # Dotted(<<"">>)
      [] OTHER -> FALSE

\* isinstance(v, (int, float))
IsNumber(v) == v.t = "num"

\* a > b raises TypeError unless both are numbers or both are strings
Comparable(a, b) == (a.t = "num" /\ b.t = "num") \/ (a.t = "str" /\ b.t = "str")

\* a > b for comparable values; the catalogs hold one non-numeric bitrate
\* string, so two strings are compared only when they are equal
PyGt(a, b) == IF a.t = "num" THEN a.n > b.n ELSE FALSE

RECURSIVE JoinDot(_)
JoinDot(parts) ==
    IF Len(parts) = 1 THEN parts[1]
    ELSE parts[1] \o "." \o JoinDot(Tail(parts))

\* str.upper() on the container extensions of the catalogs
Upper(s) ==
    CASE s = "m4a" -> "M4A"
      [] s = "mp4" -> "MP4"
      [] s = "webm" -> "WEBM"
      [] s = "unknown" -> "UNKNOWN"
      [] OTHER -> s

----------------------------------------------------------------------------
(* Stream descriptors: the entries of info['formats'] *)

Stream(id, ext, vcodec, acodec, height, fps, tbr, abr, filesize) ==
    [format_id |-> id, ext |-> ext, vcodec |-> vcodec, acodec |-> acodec,
     height |-> height, fps |-> fps, tbr |-> tbr, abr |-> abr,
     filesize |-> filesize, filesize_approx |-> Missing]

\* three descriptors that give only height, video codec and a None bitrate
SA1 == Stream("a1", Missing, Dotted(<<"avc1">>), Missing, Num(1080), Missing, Missing, None, Missing)
SA2 == Stream("a2", Missing, Dotted(<<"vp9">>), Missing, Num(1080), Missing, Missing, None, Missing)
SA3 == Stream("a3", Missing, Dotted(<<"avc1">>), Missing, Num(720), Missing, Missing, None, Missing)
\* video-only streams
V299 == Stream("299", Str("mp4"), Dotted(<<"avc1", "64002a">>), Dotted(<<"none">>), Num(1080), Num(60), Num(4000), Missing, Num(52428800))
V137 == Stream("137", Str("mp4"), Dotted(<<"avc1", "640028">>), Dotted(<<"none">>), Num(1080), Num(30), Num(2500), Missing, Missing)
V399 == Stream("399", Str("mp4"), Dotted(<<"av01", "0", "08M", "08">>), Dotted(<<"none">>), Num(1080), None, Num(1800), Missing, Missing)
\* a combined stream whose bitrates are None
C18 == Stream("18", Str("mp4"), Dotted(<<"avc1", "42001E">>), Dotted(<<"mp4a", "40", "2">>), Num(360), Num(25), None, None, Missing)
\* audio-only streams
A140 == Stream("140", Str("m4a"), Dotted(<<"none">>), Dotted(<<"mp4a", "40", "2">>), Missing, Missing, Num(128), Num(128), Missing)
A251 == Stream("251", Str("webm"), Dotted(<<"none">>), Dotted(<<"opus">>), Missing, Missing, Num(160), Num(160), Missing)
A139 == Stream("139", Str("m4a"), Dotted(<<"none">>), Dotted(<<"mp4a", "40", "5">>), Missing, Missing, Missing, None, Missing)
A599 == Stream("599", Str("m4a"), Dotted(<<"none">>), Dotted(<<"mp4a", "40", "5">>), Missing, Missing, Missing, Str("high"), Missing)

StreamPool == {SA1, SA2, SA3, V299, V137, V399, C18, A140, A251, A139, A599}

\* the longest catalog the ranker is applied to
MaxStreams == 3

RECURSIVE SeqsUpTo(_, _)
SeqsUpTo(S, n) ==
    IF n = 0 THEN {<<>>}
    ELSE LET shorter == SeqsUpTo(S, n - 1)
         IN  shorter \cup {Append(q, s) : q \in {r \in shorter : Len(r) = n - 1}, s \in S}

\* extract_info's result: None, a dict without 'formats', or a dict with them
NoInfo == [t |-> "None", has_formats |-> FALSE, formats |-> <<>>]
InfoNoFormats == [t |-> "dict", has_formats |-> FALSE, formats |-> <<>>]
Info(formats) == [t |-> "dict", has_formats |-> TRUE, formats |-> formats]

Catalogs == SeqsUpTo(StreamPool, MaxStreams)
Infos == {NoInfo, InfoNoFormats} \cup {Info(c) : c \in Catalogs}

----------------------------------------------------------------------------
(* get_available_qualities *)

HasVideoCodec(f) == Get(f.vcodec, None) # Dotted(<<"none">>)
HasAudioCodec(f) == Get(f.acodec, None) # Dotted(<<"none">>)

video_formats(formats) ==
    SelectSeq(formats, LAMBDA f : HasVideoCodec(f) /\ Truthy(Get(f.height, None)))

combined_formats(formats) ==
    SelectSeq(formats, LAMBDA f : HasVideoCodec(f) /\ HasAudioCodec(f)
                                    /\ Truthy(Get(f.height, None)))

all_formats(formats) == video_formats(formats) \o combined_formats(formats)

\* fmt.get('vcodec', '').split('.')[0]
CodecName(f, default) == Get(f.vcodec, Dotted(<<default>>)).parts[1]

PremiumCodecs == {"vp9", "av01"}

\* the label of a video stream: f"{height}p{fps}" above 30 fps, else f"{height}p"
VideoQuality(f) ==
    LET fps == Get(f.fps, Num(30))
    IN  IF Truthy(fps) /\ fps.n > 30
        THEN ToString(f.height.n) \o "p" \o ToString(fps.n)
        ELSE ToString(f.height.n) \o "p"

\* variant: the group key carries the codec name instead of the tier
quality_key_by_codec(f) == VideoQuality(f) \o "_" \o CodecName(f, "")

quality_key(f) ==
    IF CodecName(f, "") \in PremiumCodecs
    THEN VideoQuality(f) \o "_premium"
    ELSE VideoQuality(f) \o "_standard"

VideoEntry(f) ==
    LET fps == Get(f.fps, Num(30))
    IN  [format |-> f, display |-> VideoQuality(f), height |-> f.height.n,
         fps |-> IF Truthy(fps) THEN fps.n ELSE 30, codec |-> CodecName(f, "")]

\* index of key k in an insertion-ordered dict (a sequence of <<key, value>>), or 0
RECURSIVE IndexOf(_, _, _)
IndexOf(dict, k, i) ==
    IF i > Len(dict) THEN 0
    ELSE IF dict[i][1] = k THEN i
    ELSE IndexOf(dict, k, i + 1)

\* does the stream replace the group's current stream: fmt.get('tbr', 0) > cur.get('tbr', 0)
TbrComparable(f, cur) == Comparable(Get(f.tbr, Num(0)), Get(cur.tbr, Num(0)))
TbrGreater(f, cur) == PyGt(Get(f.tbr, Num(0)), Get(cur.tbr, Num(0)))

\* the loop over all_formats; raised is set when a comparison raises TypeError
RECURSIVE GroupVideo(_, _, _)
GroupVideo(fmts, i, dict) ==
    IF i > Len(fmts) THEN [raised |-> FALSE, dict |-> dict]
    ELSE LET f == fmts[i]
             k == quality_key(f)
             at == IndexOf(dict, k, 1)
         IN  IF at = 0
             THEN GroupVideo(fmts, i + 1, Append(dict, <<k, VideoEntry(f)>>))
             ELSE IF ~TbrComparable(f, dict[at][2].format)
             THEN [raised |-> TRUE, dict |-> dict]
             ELSE IF TbrGreater(f, dict[at][2].format)
             THEN GroupVideo(fmts, i + 1, [dict EXCEPT ![at] = <<k, VideoEntry(f)>>])
             ELSE GroupVideo(fmts, i + 1, dict)

\* sorted(..., reverse=True) on items [k1, k2, item]: descending by (k1, k2),
\* items of equal key in their original order
\* variant: the comparison of a sort without reverse=True
KeyLess_ascending(a, b) == a.k1 > b.k1 \/ (a.k1 = b.k1 /\ a.k2 > b.k2)

KeyLess(a, b) == a.k1 < b.k1 \/ (a.k1 = b.k1 /\ a.k2 < b.k2)

RECURSIVE InsertDesc(_, _, _)
InsertDesc(sorted, x, i) ==
    IF i > Len(sorted) THEN Append(sorted, x)
    ELSE IF KeyLess(sorted[i], x)
    THEN SubSeq(sorted, 1, i - 1) \o <<x>> \o SubSeq(sorted, i, Len(sorted))
    ELSE InsertDesc(sorted, x, i + 1)

RECURSIVE SortedReverse(_, _, _)
SortedReverse(items, i, acc) ==
    IF i > Len(items) THEN acc
    ELSE SortedReverse(items, i + 1, InsertDesc(acc, items[i], 1))

VideoQualities(formats) ==
    LET g == GroupVideo(all_formats(formats), 1, <<>>)
        items == [i \in 1..Len(g.dict) |->
                    [k1 |-> g.dict[i][2].height, k2 |-> g.dict[i][2].fps,
                     item |-> <<g.dict[i][2].display, g.dict[i][2].format>>]]
        s == SortedReverse(items, 1, <<>>)
    IN  IF g.raised THEN [raised |-> TRUE, qualities |-> <<>>]
        ELSE [raised |-> FALSE, qualities |-> [i \in 1..Len(s) |-> s[i].item]]

audio_only_formats(formats) ==
    SelectSeq(formats, LAMBDA f : HasAudioCodec(f) /\ Get(f.vcodec, None) = Dotted(<<"none">>))

\* variant: the combined streams are pooled with the audio-only ones
audio_formats_pooled(formats) == SelectSeq(formats, HasAudioCodec)

audio_formats(formats) ==
    IF audio_only_formats(formats) # <<>> THEN audio_only_formats(formats)
    ELSE SelectSeq(formats, HasAudioCodec)

\* abr if it is a positive number, else 0
SafeAbr(f) ==
    LET abr == IF Truthy(Get(f.abr, None)) THEN f.abr ELSE Num(0)
    IN  IF IsNumber(abr) /\ abr.n > 0 THEN abr.n ELSE 0

AudioQuality(f) ==
    LET ext == Get(f.ext, Str("unknown")).s
        acodec == JoinDot(Get(f.acodec, Dotted(<<"unknown">>)).parts)
    IN  IF SafeAbr(f) > 0
        THEN Upper(ext) \o " - " \o ToString(SafeAbr(f)) \o "kbps (" \o acodec \o ")"
        ELSE Upper(ext) \o " (" \o acodec \o ")"

RECURSIVE GroupAudio(_, _, _)
GroupAudio(fmts, i, dict) ==
    IF i > Len(fmts) THEN dict
    ELSE LET f == fmts[i]
             k == AudioQuality(f)
             at == IndexOf(dict, k, 1)
         IN  IF at = 0 THEN GroupAudio(fmts, i + 1, Append(dict, <<k, f>>))
             ELSE IF SafeAbr(f) > SafeAbr(dict[at][2])
             THEN GroupAudio(fmts, i + 1, [dict EXCEPT ![at] = <<k, f>>])
             ELSE GroupAudio(fmts, i + 1, dict)

\* the audio sort key: (abr or 0) if abr is a number, else 0
AudioSortKey(f) == IF IsNumber(Get(f.abr, None)) THEN f.abr.n ELSE 0

AudioQualities(formats) ==
    LET d == GroupAudio(audio_formats(formats), 1, <<>>)
        items == [i \in 1..Len(d) |-> [k1 |-> AudioSortKey(d[i][2]), k2 |-> 0, item |-> d[i]]]
        s == SortedReverse(items, 1, <<>>)
    IN  [raised |-> FALSE, qualities |-> [i \in 1..Len(s) |-> s[i].item]]

get_available_qualities(inf, download_type) ==
    IF inf.t = "None" \/ ~inf.has_formats THEN [raised |-> FALSE, qualities |-> <<>>]
    ELSE IF download_type \in {1, 3} THEN VideoQualities(inf.formats)
    ELSE IF download_type \in {2, 4} THEN AudioQualities(inf.formats)
    ELSE [raised |-> FALSE, qualities |-> <<>>]

----------------------------------------------------------------------------
(* display_qualities: the lines of the quality menu *)

\* f" (~{size_mb:.1f}MB)" for filesize / (1024 * 1024), rounded half to even
SizeInfo(f) ==
    LET a == Get(f.filesize, None)
        filesize == IF Truthy(a) THEN a ELSE Get(f.filesize_approx, None)
        m == 1024 * 1024
        q == (filesize.n * 10) \div m
        r == (filesize.n * 10) % m
        tenths == IF 2 * r > m THEN q + 1
                  ELSE IF 2 * r = m THEN q + (q % 2)
                  ELSE q
    IN  IF Truthy(filesize)
        THEN " (~" \o ToString(tenths \div 10) \o "." \o ToString(tenths % 10) \o "MB)"
        ELSE ""

quality_info(q) ==
    LET fps == Get(q[2].fps, None)
        fps_info == IF Truthy(fps) /\ fps.n > 30 THEN " " \o ToString(fps.n) \o "fps" ELSE ""
    IN  IF CodecName(q[2], "unknown") \in PremiumCodecs
        THEN q[1] \o fps_info \o " (Premium)"
        ELSE q[1] \o fps_info

MenuLines(qs, download_type) ==
    [i \in 1..Len(qs) |->
        IF download_type \in {1, 3}
        THEN ToString(i) \o ". " \o quality_info(qs[i]) \o SizeInfo(qs[i][2])
        ELSE ToString(i) \o ". " \o qs[i][1]]

----------------------------------------------------------------------------
(* Strings that are scanned are sequences of characters *)

Uppercase == <<"A", "B", "C", "D", "E", "F", "G", "H", "I", "J", "K", "L", "M",
               "N", "O", "P", "Q", "R", "S", "T", "U", "V", "W", "X", "Y", "Z">>
Lowercase == <<"a", "b", "c", "d", "e", "f", "g", "h", "i", "j", "k", "l", "m",
               "n", "o", "p", "q", "r", "s", "t", "u", "v", "w", "x", "y", "z">>

LowerChar(c) ==
    IF \E i \in 1..26 : Uppercase[i] = c
    THEN Lowercase[CHOOSE i \in 1..26 : Uppercase[i] = c]
    ELSE c

\* str.lower()
lower(str) == [i \in 1..Len(str) |-> LowerChar(str[i])]

\* does sub occur in str at position i
MatchesAt(str, sub, i) ==
    /\ i + Len(sub) - 1 <= Len(str)
    /\ \A k \in 1..Len(sub) : str[i + k - 1] = sub[k]

\* sub in str
RECURSIVE ScanFor(_, _, _)
ScanFor(str, sub, i) ==
    IF i > Len(str) THEN FALSE
    ELSE IF MatchesAt(str, sub, i) THEN TRUE
    ELSE ScanFor(str, sub, i + 1)

In(sub, str) == sub = <<>> \/ ScanFor(str, sub, 1)

\* str.strip() for the blank
RECURSIVE LStrip(_)
LStrip(str) == IF str # <<>> /\ Head(str) = " " THEN LStrip(Tail(str)) ELSE str
RECURSIVE RStrip(_)
RStrip(str) ==
    IF str # <<>> /\ str[Len(str)] = " " THEN RStrip(SubSeq(str, 1, Len(str) - 1)) ELSE str
strip(str) == RStrip(LStrip(str))

----------------------------------------------------------------------------
(* is_playlist *)

playlist_indicators == {<<"p", "l", "a", "y", "l", "i", "s", "t">>, <<"l", "i", "s", "t", "=">>, <<"a", "l", "b", "u", "m">>, <<"c", "h", "a", "n", "n", "e", "l">>}

\* variant: the URL is scanned as typed, without lower()
is_playlist_case_sensitive(u) == \E indicator \in playlist_indicators : In(indicator, u)

is_playlist(u) == \E indicator \in playlist_indicators : In(indicator, lower(u))

\* URLs are put together from these pieces
UrlPieces == {<<"w", "?">>,
              <<"v", "=", "1">>,
              <<"l", "i", "s", "t">>,
              <<"=">>,
              <<"p", "l", "a", "y">>,
              <<"L", "I", "S", "T">>,
              <<"A", "l", "b", "u", "m">>,
              <<"c", "h", "a", "n", "n", "e", "l">>,
              <<"&">>}

\* the most pieces a classified URL is made of
MaxUrlPieces == 3

RECURSIVE Concat(_)
Concat(seqs) == IF seqs = <<>> THEN <<>> ELSE Head(seqs) \o Concat(Tail(seqs))

Urls == {Concat(ps) : ps \in SeqsUpTo(UrlPieces, MaxUrlPieces)}

----------------------------------------------------------------------------
(* The ranker on its own: a catalog and a download type are drawn, the      *)
(* ranker is applied, and its result is rendered.                           *)

NoResult == [raised |-> FALSE, qualities |-> <<>>]
NoPlaylist == [t |-> "None", entries |-> <<>>]
NoOpts == [format |-> "", outtmpl |-> "", merge_output_format |-> "", postprocessors |-> <<>>]

RkIdle ==
    /\ rk_pc = "idle" /\ rk_info = NoInfo /\ rk_type = 0 /\ rk_result = NoResult
    /\ rk_lines = <<>>

MainIdle ==
    /\ pc = "idle" /\ choice = 0 /\ url = <<>> /\ info = NoPlaylist /\ sample_info = NoInfo
    /\ qualities = <<>> /\ quality_choice = 0 /\ format_id = "" /\ ydl_opts = NoOpts
    /\ success = FALSE /\ engine = "none" /\ console = <<>>

UcIdle == uc_pc = "idle" /\ uc_url = <<>> /\ uc_verdict = FALSE

RankInit ==
    /\ rk_pc = "start"
    /\ rk_info \in Infos
    /\ rk_type \in 1..4
    /\ rk_result = NoResult
    /\ rk_lines = <<>>
    /\ UcIdle /\ MainIdle

Rank ==
    /\ rk_pc = "start"
    /\ rk_result' = get_available_qualities(rk_info, rk_type)
    /\ rk_pc' = IF rk_result'.raised THEN "raised" ELSE "ranked"
    /\ UNCHANGED <<rk_info, rk_type, rk_lines, uc_vars, main_vars>>

Render ==
    /\ rk_pc = "ranked"
    /\ rk_lines' = MenuLines(rk_result.qualities, rk_type)
    /\ rk_pc' = "shown"
    /\ UNCHANGED <<rk_info, rk_type, rk_result, uc_vars, main_vars>>

RankNext == Rank \/ Render

RankSpec == RankInit /\ [][RankNext]_vars

----------------------------------------------------------------------------
(* The calls of the external engine. An outcome is what YoutubeDL does:    *)
(* it raises, or it returns a value. A call's result says whether the       *)
(* exception left the method, the value returned and what was printed.      *)

Raises == [raised |-> TRUE, value |-> NoInfo]
Returns(v) == [raised |-> FALSE, value |-> v]

\* variant: no try/except around extract_info
get_video_info_unguarded(outcome) ==
    [propagated |-> outcome.raised, value |-> outcome.value, printed |-> <<>>]

get_video_info(outcome) ==
    IF outcome.raised
    THEN [propagated |-> FALSE, value |-> NoInfo, printed |-> <<"Error getting video info">>]
    ELSE [propagated |-> FALSE, value |-> outcome.value, printed |-> <<>>]

get_playlist_info(outcome) ==
    IF outcome.raised
    THEN [propagated |-> FALSE, value |-> NoPlaylist, printed |-> <<"Error getting playlist info">>]
    ELSE [propagated |-> FALSE, value |-> outcome.value, printed |-> <<>>]

\* variant: the ceiling of the except branch
extract_height_fallback(fid) == "720"

extract_height_from_format_id(fid) == "1080"

ExtractAudio ==
    <<[key |-> "FFmpegExtractAudio", preferredcodec |-> "mp3", preferredquality |-> "192"]>>

\* the ydl_opts download_video builds
DownloadOptions(fid, download_type) ==
    CASE download_type = 1 ->
            [format |-> fid \o "+bestaudio[ext=m4a]/best[height<="
                            \o extract_height_from_format_id(fid) \o "]",
             outtmpl |-> "downloads/%(title)s.%(ext)s",
             merge_output_format |-> "mp4", postprocessors |-> <<>>]
      [] download_type = 2 ->
            [format |-> fid \o "/bestaudio",
             outtmpl |-> "downloads/%(title)s.%(ext)s",
             merge_output_format |-> "", postprocessors |-> ExtractAudio]
      [] download_type = 3 ->
            [format |-> fid \o "+bestaudio[ext=m4a]/best[height<="
                            \o extract_height_from_format_id(fid) \o "]",
             outtmpl |-> "downloads/%(playlist)s/%(title)s.%(ext)s",
             merge_output_format |-> "mp4", postprocessors |-> <<>>]
      [] download_type = 4 ->
            [format |-> fid \o "/bestaudio",
             outtmpl |-> "downloads/%(playlist)s/%(title)s.%(ext)s",
             merge_output_format |-> "", postprocessors |-> ExtractAudio]

download_video(fid, download_type, outcome) ==
    IF outcome.raised
    THEN [propagated |-> FALSE, value |-> FALSE, printed |-> <<"Download failed: ">>,
          ydl_opts |-> DownloadOptions(fid, download_type)]
    ELSE [propagated |-> FALSE, value |-> TRUE, printed |-> <<>>,
          ydl_opts |-> DownloadOptions(fid, download_type)]

----------------------------------------------------------------------------
(* main(): the menu loop. Each action runs from one prompt or engine call   *)
(* to the next. The locals of an iteration that no later statement reads    *)
(* are cleared when the loop returns to the menu.                           *)

\* the streams of the catalogs the engine returns to the loop
MainPool == {SA3, V137, C18, A140, A139}
MainInfos == {InfoNoFormats} \cup {Info(c) : c \in SeqsUpTo(MainPool, MaxStreams)}
VideoOutcomes == {Raises} \cup {Returns(i) : i \in MainInfos}

FirstVideoUrl == <<"e", "?", "v", "=", "2">>
Playlist(entries) == [t |-> "dict", entries |-> entries]
PlaylistOutcomes ==
    {[raised |-> TRUE, value |-> NoPlaylist],
     [raised |-> FALSE, value |-> Playlist(<<>>)],
     [raised |-> FALSE, value |-> Playlist(<<[url |-> FirstVideoUrl]>>)]}

DownloadOutcomes == {[raised |-> TRUE], [raised |-> FALSE]}

\* the largest number typed at the main menu
MaxMenuInput == 5
MenuInputs == {Str("x")} \cup {Num(n) : n \in 0..MaxMenuInput}
QualityInputs == {Str("x")} \cup {Num(n) : n \in 0..(MaxStreams + 1)}

\* what is typed at the URL prompt
UrlInputs == {<<"w", "?", "v", "=", "1">>,
              <<" ", "w", "?", "l", "i", "s", "t", "=", "1", " ">>,
              <<"A", "l", "b", "u", "m">>,
              <<>>,
              <<" ", "B", "a", "c", "k">>}

BACK == <<"b", "a", "c", "k">>

Init ==
    /\ pc = "menu" /\ choice = 0 /\ url = <<>> /\ info = NoPlaylist /\ sample_info = NoInfo
    /\ qualities = <<>> /\ quality_choice = 0 /\ format_id = "" /\ ydl_opts = NoOpts
    /\ success = FALSE /\ engine = "none" /\ console = <<>>
    /\ RkIdle /\ UcIdle

\* `continue`: back to the menu prompt
Continue(printed) ==
    /\ pc' = "menu"
    /\ console' = printed
    /\ choice' = 0 /\ url' = <<>> /\ info' = NoPlaylist /\ sample_info' = NoInfo
    /\ qualities' = <<>> /\ quality_choice' = 0 /\ format_id' = "" /\ ydl_opts' = NoOpts
    /\ success' = FALSE

\* an uncaught exception leaves main(): the process ends with a traceback
Crash(printed) ==
    /\ pc' = "crashed"
    /\ console' = printed
    /\ UNCHANGED <<choice, url, info, sample_info, qualities, quality_choice, format_id,
                   ydl_opts, success>>

\* the menu prompt: int(input(...)), exit on 0, a choice of 1-4 goes on
MenuInput ==
    /\ pc = "menu"
    /\ engine' = "none"
    /\ \E typed \in MenuInputs :
          IF typed.t # "num" THEN Continue(<<"Please enter a valid number!">>)
          ELSE IF typed.n = 0
          THEN /\ pc' = "exited"
               /\ console' = <<"Thank you for using Video Downloader!">>
               /\ UNCHANGED <<choice, url, info, sample_info, qualities, quality_choice,
                              format_id, ydl_opts, success>>
          ELSE IF typed.n \notin {1, 2, 3, 4}
          THEN Continue(<<"Invalid choice! Please select 1-4 or 0 to exit.">>)
          ELSE /\ pc' = "url"
               /\ choice' = typed.n
               /\ console' = <<>>
               /\ url' = <<>> /\ info' = NoPlaylist /\ sample_info' = NoInfo
               /\ qualities' = <<>> /\ quality_choice' = 0 /\ format_id' = ""
               /\ ydl_opts' = NoOpts /\ success' = FALSE
    /\ UNCHANGED <<rk_vars, uc_vars>>

\* get_url_input and `if not url: continue`
UrlInput ==
    /\ pc = "url"
    /\ engine' = "none"
    /\ \E typed \in UrlInputs :
          LET u == strip(typed)
          IN  IF lower(u) = BACK THEN Continue(<<>>)
              ELSE IF u # <<>>
              THEN /\ pc' = "classify"
                   /\ url' = u
                   /\ console' = <<>>
                   /\ UNCHANGED <<choice, info, sample_info, qualities, quality_choice,
                                  format_id, ydl_opts, success>>
              ELSE /\ console' = <<"Please enter a valid URL!">>
                   /\ UNCHANGED <<pc, choice, url, info, sample_info, qualities,
                                  quality_choice, format_id, ydl_opts, success>>
    /\ UNCHANGED <<rk_vars, uc_vars>>

PlaylistUrlForSingle(c, u) == c \in {1, 2} /\ is_playlist(u)

\* variant: the check of the playlist options is left out
SingleUrlForPlaylist_unchecked(c, u) == FALSE

SingleUrlForPlaylist(c, u) == c \in {3, 4} /\ ~is_playlist(u)

\* the two checks of the URL against the chosen option
CheckUrl ==
    /\ pc = "classify"
    /\ engine' = "none"
    /\ IF PlaylistUrlForSingle(choice, url)
       THEN Continue(<<"This appears to be a playlist URL!">>)
       ELSE IF SingleUrlForPlaylist(choice, url)
       THEN Continue(<<"This appears to be a single video URL!">>)
       ELSE /\ pc' = IF choice \in {3, 4} THEN "fetch_playlist" ELSE "fetch_video"
            /\ console' = <<"Analyzing URL and fetching available formats...">>
            /\ UNCHANGED <<choice, url, info, sample_info, qualities, quality_choice,
                           format_id, ydl_opts, success>>
    /\ UNCHANGED <<rk_vars, uc_vars>>

\* options 3 and 4: get_playlist_info and the look at its entries
FetchPlaylist ==
    /\ pc = "fetch_playlist"
    /\ \E outcome \in PlaylistOutcomes :
          LET r == get_playlist_info(outcome)
          IN  /\ engine' = IF outcome.raised THEN "raised" ELSE "returned"
              /\ IF r.propagated THEN Crash(r.printed)
                 ELSE IF r.value.t = "None"
                 THEN Continue(r.printed \o <<"Could not fetch playlist information!">>)
                 ELSE IF r.value.entries = <<>>
                 THEN Continue(<<"No videos found in playlist!">>)
                 ELSE /\ pc' = "fetch_video"
                      /\ info' = r.value
                      /\ console' = <<"Playlist:", "Videos found:">>
                      /\ UNCHANGED <<choice, url, sample_info, qualities, quality_choice,
                                     format_id, ydl_opts, success>>
    /\ UNCHANGED <<rk_vars, uc_vars>>

\* get_video_info, of the first entry for a playlist, and `if not sample_info`
FetchVideo ==
    /\ pc = "fetch_video"
    /\ \E outcome \in VideoOutcomes :
          LET r == get_video_info(outcome)
          IN  /\ engine' = IF outcome.raised THEN "raised" ELSE "returned"
              /\ IF r.propagated THEN Crash(r.printed)
                 ELSE IF r.value.t = "None"
                 THEN Continue(r.printed \o <<"Could not fetch video information!">>)
                 ELSE /\ pc' = "rank"
                      /\ sample_info' = r.value
                      /\ info' = IF choice \in {1, 2} THEN r.value ELSE info
                      /\ console' = IF choice \in {1, 2}
                                    THEN <<"Title:", "Duration:", "Uploader:">> ELSE <<>>
                      /\ UNCHANGED <<choice, url, qualities, quality_choice, format_id,
                                     ydl_opts, success>>
    /\ UNCHANGED <<rk_vars, uc_vars>>

\* get_available_qualities, `if not qualities`, and the menu display_qualities prints
RankQualities ==
    /\ pc = "rank"
    /\ engine' = "none"
    /\ LET r == get_available_qualities(sample_info, choice)
       IN  IF r.raised THEN Crash(<<"TypeError">>)
           ELSE IF r.qualities = <<>>
           THEN Continue(<<"No suitable formats found for this content!">>)
           ELSE /\ pc' = "select"
                /\ qualities' = r.qualities
                /\ console' = MenuLines(r.qualities, choice)
                /\ UNCHANGED <<choice, url, info, sample_info, quality_choice, format_id,
                               ydl_opts, success>>
    /\ UNCHANGED <<rk_vars, uc_vars>>

\* the prompt of display_qualities and `if not format_id: continue`
SelectQuality ==
    /\ pc = "select"
    /\ engine' = "none"
    /\ \E typed \in QualityInputs :
          IF typed.t # "num"
          THEN /\ console' = <<"Please enter a valid number!">>
               /\ UNCHANGED <<pc, choice, url, info, sample_info, qualities, quality_choice,
                              format_id, ydl_opts, success>>
          ELSE IF typed.n = 0 THEN Continue(<<>>)
          ELSE IF 1 <= typed.n /\ typed.n <= Len(qualities)
          THEN IF qualities[typed.n][2].format_id = "" THEN Continue(<<>>)
               ELSE /\ pc' = "download"
                    /\ quality_choice' = typed.n
                    /\ format_id' = qualities[typed.n][2].format_id
                    /\ console' = <<"Starting download...">>
                    /\ UNCHANGED <<choice, url, info, sample_info, qualities, ydl_opts,
                                   success>>
          ELSE /\ console' = <<"Invalid choice! Please try again.">>
               /\ UNCHANGED <<pc, choice, url, info, sample_info, qualities, quality_choice,
                              format_id, ydl_opts, success>>
    /\ UNCHANGED <<rk_vars, uc_vars>>

\* download_video, the report of its result and "Press Enter to continue..."
Download ==
    /\ pc = "download"
    /\ \E outcome \in DownloadOutcomes :
          LET r == download_video(format_id, choice, outcome)
          IN  /\ engine' = IF outcome.raised THEN "raised" ELSE "returned"
              /\ ydl_opts' = r.ydl_opts
              /\ success' = r.value
              /\ pc' = IF r.propagated THEN "crashed" ELSE "menu"
              /\ console' = r.printed \o
                    (IF r.value THEN <<"Download completed successfully!">>
                     ELSE <<"Download failed!">>)
    /\ UNCHANGED <<choice, url, info, sample_info, qualities, quality_choice, format_id>>
    /\ UNCHANGED <<rk_vars, uc_vars>>

Next ==
    \/ MenuInput
    \/ UrlInput
    \/ CheckUrl
    \/ FetchPlaylist
    \/ FetchVideo
    \/ RankQualities
    \/ SelectQuality
    \/ Download

Spec == Init /\ [][Next]_vars

----------------------------------------------------------------------------
(* Properties of the ranker, checked under RankSpec *)

Returned == rk_pc \in {"ranked", "shown"}
Options == rk_result.qualities
VideoMode == rk_type \in {1, 3}
AudioMode == rk_type \in {2, 4}
Tier(f) == IF CodecName(f, "") \in PremiumCodecs THEN "premium" ELSE "standard"

\* C1 as stated: no two options returned by get_available_qualities have the
\* same display label.
C1_UniqueLabels ==
    Returned => \A i, j \in 1..Len(Options) : i # j => Options[i][1] # Options[j][1]

\* C1 amended: in the audio modes no two returned options have the same
\* label; in the video modes no two returned options have both the same label
\* and the same codec tier (a premium and a standard option may share a label).
C1_UniqueLabelAndTier ==
    Returned =>
        \A i, j \in 1..Len(Options) :
            i # j =>
                \/ Options[i][1] # Options[j][1]
                \/ VideoMode /\ Tier(Options[i][2]) # Tier(Options[j][2])

\* a premium and a standard option of the same label are both returned
C1_Witness ==
    /\ Returned /\ VideoMode /\ Len(Options) >= 2
    /\ \E i, j \in 1..Len(Options) :
          /\ Options[i][1] = Options[j][1]
          /\ Tier(Options[i][2]) = "premium" /\ Tier(Options[j][2]) = "standard"

\* the ranking key of a stream as C2 states it
FramerateOr30(f) == IF f.fps \in {Missing, None} THEN 30 ELSE f.fps.n
BitrateOr0(f) == IF f.abr.t = "num" THEN f.abr.n ELSE 0
RankedBefore(f, g) ==
    IF VideoMode
    THEN \/ f.height.n > g.height.n
         \/ f.height.n = g.height.n /\ FramerateOr30(f) >= FramerateOr30(g)
    ELSE BitrateOr0(f) >= BitrateOr0(g)

\* C2: the returned options are in non-increasing order of the mode's ranking
\* key: (height, framerate, unknown taken as 30) in the video modes, the
\* bitrate (absent or non-numeric taken as 0) in the audio modes.
C2_SortedDescending ==
    Returned =>
        \A i, j \in 1..Len(Options) : i < j => RankedBefore(Options[i][2], Options[j][2])

\* the framerate decides between two options of one height, against catalog order
C2_Witness ==
    /\ Returned /\ rk_type = 1
    /\ rk_info.formats = <<SA3, V137, V299>>
    /\ Len(Options) = 3
    /\ Options[1][2] = V299 /\ Options[2][2] = V137 /\ Options[3][2] = SA3

TbrOr0(f) == IF f.tbr.t = "num" THEN f.tbr.n ELSE 0
SameHeightAndTier(f, g) == f.height = g.height /\ Tier(f) = Tier(g)

\* C3 as stated: in the video modes, when the catalog has two candidate
\* streams of the same height and codec tier and different bitrates, exactly
\* one option is returned for that (height, tier), backed by a stream whose
\* bitrate is the higher one.
C3_OneOptionPerHeightAndTier ==
    (Returned /\ VideoMode) =>
        \A a, b \in 1..Len(video_formats(rk_info.formats)) :
            LET f == video_formats(rk_info.formats)[a]
                g == video_formats(rk_info.formats)[b]
            IN  (/\ SameHeightAndTier(f, g)
                 /\ f.tbr.t = "num" /\ g.tbr.t = "num" /\ f.tbr.n # g.tbr.n) =>
                    /\ Cardinality({i \in 1..Len(Options) :
                                       SameHeightAndTier(Options[i][2], f)}) = 1
                    /\ \A i \in 1..Len(Options) :
                          SameHeightAndTier(Options[i][2], f) =>
                              /\ TbrOr0(Options[i][2]) >= f.tbr.n
                              /\ TbrOr0(Options[i][2]) >= g.tbr.n

\* C4 as stated: get_available_qualities never raises, whatever the bitrate
\* fields of the catalog's streams hold.
C4_NeverRaises == rk_pc # "raised"

CarriesVideoCodec(f) == Get(f.vcodec, None) # Dotted(<<"none">>)
AudioOnlyStream(f) ==
    Get(f.vcodec, None) = Dotted(<<"none">>) /\ Get(f.acodec, None) # Dotted(<<"none">>)
Streams(formats) == {formats[i] : i \in 1..Len(formats)}

\* C5 as stated: no stream that carries a video codec backs an option of an
\* audio-mode result and no audio-only stream backs an option of a video-mode
\* result.
C5_PoolsNeverMix ==
    Returned =>
        \A i \in 1..Len(Options) :
            /\ AudioMode => ~CarriesVideoCodec(Options[i][2])
            /\ VideoMode => ~AudioOnlyStream(Options[i][2])

\* C5 amended: no audio-only stream backs an option of a video-mode result,
\* and a stream that carries a video codec backs an option of an audio-mode
\* result only when the catalog holds no audio-only stream.
C5_PoolsMixOnlyWithoutAudioOnly ==
    Returned =>
        \A i \in 1..Len(Options) :
            /\ (AudioMode /\ CarriesVideoCodec(Options[i][2])) =>
                   ~\E f \in Streams(rk_info.formats) : AudioOnlyStream(f)
            /\ VideoMode => ~AudioOnlyStream(Options[i][2])

\* a catalog with a combined and an audio-only stream, ranked in an audio mode
C5_Witness ==
    /\ Returned /\ rk_type = 2
    /\ rk_info.formats = <<C18, A140>>
    /\ Len(Options) = 1 /\ Options[1][2] = A140

ScenarioA == <<SA1, SA2, SA3>>

\* C6 as stated: for the catalog (1080 avc1), (1080 vp9), (720 avc1), each
\* without bitrate, the video menu shows "1080p (Premium)", "1080p", "720p"
\* in that order.
C6_ScenarioAOrder ==
    (rk_pc = "shown" /\ VideoMode /\ rk_info = Info(ScenarioA)) =>
        rk_lines = <<"1. 1080p (Premium)", "2. 1080p", "3. 720p">>

----------------------------------------------------------------------------
(* The URL classifier on its own: a URL is drawn and classified. *)

UrlInit ==
    /\ uc_pc = "start"
    /\ uc_url \in Urls
    /\ uc_verdict = FALSE
    /\ RkIdle /\ MainIdle

Classify ==
    /\ uc_pc = "start"
    /\ uc_verdict' = is_playlist(uc_url)
    /\ uc_pc' = "classified"
    /\ UNCHANGED <<uc_url, rk_vars, main_vars>>

UrlNext == Classify

UrlSpec == UrlInit /\ [][UrlNext]_vars

\* the claim's own reading of "contains, compared case-insensitively"
Occurs(sub, str) ==
    \E i \in 1..Len(str) : i + Len(sub) - 1 <= Len(str)
                           /\ SubSeq(lower(str), i, i + Len(sub) - 1) = sub

\* C7 as stated: is_playlist is true if and only if the URL contains, compared
\* case-insensitively, "list=" or "playlist".
C7_ListOrPlaylistOnly ==
    uc_pc = "classified" =>
        (uc_verdict <=> (Occurs(<<"l", "i", "s", "t", "=">>, uc_url) \/ Occurs(<<"p", "l", "a", "y", "l", "i", "s", "t">>, uc_url)))

\* C7 amended: is_playlist is true if and only if the URL contains, compared
\* case-insensitively, one of "playlist", "list=", "album", "channel".
C7_AnyOfFourIndicators ==
    uc_pc = "classified" =>
        (uc_verdict <=> (\/ Occurs(<<"p", "l", "a", "y", "l", "i", "s", "t">>, uc_url)
                         \/ Occurs(<<"l", "i", "s", "t", "=">>, uc_url)
                         \/ Occurs(<<"a", "l", "b", "u", "m">>, uc_url)
                         \/ Occurs(<<"c", "h", "a", "n", "n", "e", "l">>, uc_url)))

\* a URL with "Album" and neither "list=" nor "playlist" is classified as a
\* playlist URL
C7_Witness ==
    /\ uc_pc = "classified"
    /\ uc_url = <<"w", "?", "A", "l", "b", "u", "m", "&">>
    /\ uc_verdict

----------------------------------------------------------------------------
(* Properties of the menu loop and the request builder, checked under Spec *)

Chosen == qualities[quality_choice][2]
DownloadDone == pc = "menu" /\ engine # "none" /\ ydl_opts # NoOpts

\* C8: in both video modes the format selector is the chosen identifier
\* combined with the best m4a audio track, with a fallback to the best
\* combined stream of height at most 1080, whatever the resolution of the
\* chosen stream.
C8_FixedCeilingSelector ==
    (DownloadDone /\ choice \in {1, 3}) =>
        /\ format_id = Chosen.format_id
        /\ ydl_opts.format = Chosen.format_id \o "+bestaudio[ext=m4a]/best[height<=1080]"

\* a 720-line stream was chosen for a playlist download
C8_Witness ==
    /\ DownloadDone /\ choice = 3
    /\ Chosen.height = Num(720)

C10_DownloadOnlyAfterSelection ==
    /\ [](pc = "download" =>
            /\ choice \in 1..4
            /\ is_playlist(url) <=> choice \in {3, 4}
            /\ sample_info.t = "dict"
            /\ choice \in {3, 4} => info.entries # <<>>
            /\ qualities # <<>>
            /\ qualities = get_available_qualities(sample_info, choice).qualities
            /\ quality_choice \in 1..Len(qualities)
            /\ format_id = qualities[quality_choice][2].format_id)
    /\ [][/\ pc' = "download" => pc = "select"
          /\ pc' = "select" => pc \in {"rank", "select"}
          /\ pc' = "rank" => pc = "fetch_video"
          /\ pc' = "fetch_video" => pc = IF choice \in {3, 4} THEN "fetch_playlist"
                                                              ELSE "classify"
          /\ pc' = "fetch_playlist" => pc = "classify"
          /\ pc' = "classify" => pc = "url"]_vars

\* the second option of a playlist's sample catalog is about to be downloaded
C10_Witness ==
    /\ pc = "download" /\ choice = 3
    /\ quality_choice = 2 /\ Len(qualities) = 2

=============================================================================
